---- MODULE Spec2Model ----
(***************************************************************************)
(* Model of the hierarchical decision pipeline of ai_engine:               *)
(*   - the worker -> evaluator retry subgraphs (agents/market, agents/risk)*)
(*   - the parent graph (graph/hierarchical_graph.py) with its router,     *)
(*     bridge nodes and aggregator                                         *)
(*   - DecisionEngine.decide (graph/engine.py)                             *)
(*                                                                         *)
(* Optional values (Python None / value) are sequences: <<>> is None and   *)
(* <<v>> is the value v.  Floats in [0,1] are tenths: 0..10.               *)
(***************************************************************************)
EXTENDS Integers, Sequences, FiniteSets, TLC

\* ------------------------------------------------------------------ bounds
\* Largest max_retries a subgraph is invoked with (the schema default is 2).
MaxMaxRetries == 2
\* LangGraph's superstep budget of one invoke (library default 25).
RecursionLimit == 25

\* --------------------------------------------------------------- constants
DefaultMaxRetries == 2
EvaluatorAttempts == 3

None == <<>>
Some(x) == <<x>>
Truthy(opt) == opt # <<>>

END == "END"
Branches == {"market", "risk"}

\* ------------------------------------------------- the opaque judgment call
\* What one call of chain.invoke (prompt | llm | parser) can produce before
\* parsing: a raised error (timeout, transport) or a raw structured answer.
RawVerdicts ==
  { [is_valid |-> TRUE,  confidence |-> 9,  quality_score |-> 8, issues |-> <<>>],
    [is_valid |-> FALSE, confidence |-> 4,  quality_score |-> 3, issues |-> <<"inconsistent">>],
    [is_valid |-> FALSE, confidence |-> 0,  quality_score |-> 0, issues |-> <<>>],
    [is_valid |-> TRUE,  confidence |-> 15, quality_score |-> 8, issues |-> <<>>] }

JudgeOutcomes == {[kind |-> "error"]} \cup {[kind |-> "raw", v |-> v] : v \in RawVerdicts}

\* MarketEvaluation / RiskEvaluation field constraints (ge=0.0, le=1.0).
SchemaValid(v) ==
  /\ v.confidence \in 0..10
  /\ v.quality_score \in 0..10

\* One attempt succeeds when the call returned and the parser accepted it.
AttemptOk(o) == o.kind = "raw" /\ SchemaValid(o.v)

\* ------------------------------------------------------- subgraph state
\* MarketSubgraphState / RiskSubgraphState.  symbol stands for all inputs.
StateDefaults ==
  [ symbol |-> "",
    worker_output |-> None,
    evaluation |-> None,
    retry_count |-> 0,
    max_retries |-> DefaultMaxRetries,
    evaluator_feedback |-> None,
    completed |-> FALSE,
    error |-> None ]

StateFields == DOMAIN StateDefaults

\* The Optional[...] = None fields: the only ones whose value and default
\* can be None.
OptionalFields == {"worker_output", "evaluation", "evaluator_feedback", "error"}

\* Constructing a state object: explicitly passed fields over the defaults.
\* `set` is the model's fields-set (the fields passed to the constructor).
NewState(given) ==
  [ val |-> [k \in StateFields |-> IF k \in DOMAIN given THEN given[k] ELSE StateDefaults[k]],
    set |-> DOMAIN given ]

\* A compiled StateGraph over a Pydantic state writes a node's returned model
\* into the channels field by field.  A field is skipped (keeps its prior
\* value) only when its value is None, its default is None and it was not
\* passed to the constructor; every other field of the returned object
\* overwrites the channel, defaults included.
Merge(state, upd) ==
  [k \in StateFields |->
     IF k \in OptionalFields /\ upd.val[k] = None /\ k \notin upd.set
       THEN state[k]
       ELSE upd.val[k]]

\* ------------------------------------------------------------ worker node
\* market_worker / risk_worker: `fault` is whether the computation raised.
\* The returned object passes no retry_count, max_retries or
\* evaluator_feedback, so the object carries their defaults.
WorkerReturn(state, fault) ==
  IF fault
    THEN NewState([ symbol |-> state.symbol,
                    worker_output |-> None,
                    evaluation |-> None,
                    completed |-> TRUE,
                    error |-> Some("worker failed") ])
    ELSE NewState([ symbol |-> state.symbol,
                    worker_output |-> Some("facts"),
                    evaluation |-> state.evaluation,
                    completed |-> FALSE,
                    error |-> None ])

\* --------------------------------------------------------- evaluator node
AttemptIndices == 1..EvaluatorAttempts

\* The for-loop over the attempts: index of the first attempt that succeeds
\* (the loop breaks there), 0 when every attempt failed.
FirstOk(outs) ==
  IF \E i \in AttemptIndices : AttemptOk(outs[i])
    THEN CHOOSE i \in AttemptIndices :
           /\ AttemptOk(outs[i])
           /\ \A j \in AttemptIndices : j < i => ~AttemptOk(outs[j])
    ELSE 0

\* A loop without the break: every attempt is made.
AttemptsMadeNoBreak(outs) == EvaluatorAttempts

\* Number of calls of the judgment function made by one evaluator execution.
AttemptsMade(outs) == IF FirstOk(outs) = 0 THEN EvaluatorAttempts ELSE FirstOk(outs)

\* Whether each call made by the for-loop succeeded, in call order.
AttemptLog(outs) == [i \in 1..AttemptsMade(outs) |-> AttemptOk(outs[i])]

\* The calls of one evaluator execution: none without a worker output.
JudgmentCalls(state, outs) ==
  IF ~Truthy(state.worker_output) THEN <<>> ELSE AttemptLog(outs)

\* The locals of the retry loop that decide what a call is given: the
\* failure notes appended to the string human_message, and the failure notes
\* in the prompt of the chain that chain.invoke runs.
LoopStart == [human |-> {}, chain |-> {}]

\* The except clause of the loop after attempt k failed.  The risk evaluator
\* rebuilds prompt and chain from human_message + retry_message; the market
\* evaluator appends to human_message only, the chain stays the one built
\* before the loop.
AfterFailure(b, loop, k) ==
  IF k >= EvaluatorAttempts THEN loop
  ELSE IF b = "risk" THEN [human |-> loop.human, chain |-> {k}]
  ELSE [human |-> loop.human \cup {k}, chain |-> loop.chain]

\* The loop's locals when attempt k starts (attempts 1..k-1 having failed).
RECURSIVE LoopBefore(_, _)
LoopBefore(b, k) ==
  IF k = 1 THEN LoopStart ELSE AfterFailure(b, LoopBefore(b, k - 1), k - 1)

\* For each call of one evaluator execution, the failure notes in its prompt.
JudgmentInputs(b, state, outs) ==
  IF ~Truthy(state.worker_output) THEN <<>>
  ELSE [k \in 1..AttemptsMade(outs) |-> LoopBefore(b, k).chain]

FailedEvaluationNoIssues(msg) ==
  [ is_valid |-> FALSE, confidence |-> 0, quality_score |-> 0, issues |-> <<>> ]

\* The default evaluation built by the except branch of the evaluator.
FailedEvaluation(msg) ==
  [ is_valid |-> FALSE, confidence |-> 0, quality_score |-> 0,
    issues |-> <<"Evaluation failed: " \o msg>> ]

\* The except branch of the evaluator: a default evaluation, completed=True,
\* error set; retry_count, max_retries, evaluator_feedback are not passed.
EvaluatorFailureReturn(state, msg) ==
  NewState([ symbol |-> state.symbol,
             worker_output |-> state.worker_output,
             evaluation |-> Some(FailedEvaluation(msg)),
             completed |-> TRUE,
             error |-> Some("Evaluator failed: " \o msg) ])

Feedback(ev) ==
  [ confidence |-> ev.confidence, quality_score |-> ev.quality_score, issues |-> ev.issues ]

NewRetryCountAlways(state, ev) == state.retry_count + 1

NewRetryCountDecrements(state, ev) ==
  IF ~ev.is_valid THEN state.retry_count - 1 ELSE state.retry_count

NewRetryCount(state, ev) ==
  IF ~ev.is_valid THEN state.retry_count + 1 ELSE state.retry_count

EvaluatorSuccessReturn(state, ev) ==
  NewState([ symbol |-> state.symbol,
             worker_output |-> state.worker_output,
             evaluation |-> Some(ev),
             retry_count |-> NewRetryCount(state, ev),
             max_retries |-> state.max_retries,
             evaluator_feedback |-> IF ~ev.is_valid THEN Some(Feedback(ev)) ELSE None,
             completed |-> ev.is_valid,
             error |-> None ])

\* Which branch of the evaluator the outcomes `outs` lead to.
EvaluatorPath(state, outs) ==
  IF ~Truthy(state.worker_output) THEN "no_output"
  ELSE IF FirstOk(outs) = 0 THEN "failed"
  ELSE "ok"

\* market_evaluator / risk_evaluator for the outcomes `outs` of the (up to
\* three) judgment attempts.
EvaluatorReturn(state, outs) ==
  IF ~Truthy(state.worker_output)
    THEN EvaluatorFailureReturn(state, "No worker output to evaluate")
    ELSE IF FirstOk(outs) = 0
      THEN EvaluatorFailureReturn(state, "judgment failed")
      ELSE EvaluatorSuccessReturn(state, outs[FirstOk(outs)].v)

\* ------------------------------------------------- should_retry_worker
Choices == {"y", "n", "a"}

RetriesExhausted(state) == state.retry_count > state.max_retries

\* The human prompt of the risk subgraph is reached exactly here.
HookAsked(b, state) ==
  /\ b = "risk"
  /\ Truthy(state.evaluation)
  /\ ~state.evaluation[1].is_valid
  /\ ~RetriesExhausted(state)

\* Route chosen after the evaluator: "END", "worker", or "raise" (the
\* exception raised by the risk subgraph on the answer 'a').
should_retry_worker(b, state, choice) ==
  IF ~Truthy(state.evaluation) THEN END
  ELSE IF state.evaluation[1].is_valid THEN END
  ELSE IF RetriesExhausted(state) THEN END
  ELSE IF b # "risk" THEN "worker"
  ELSE IF choice = "a" THEN "raise"
  ELSE IF choice = "n" THEN END
  ELSE "worker"

\* ======================================================================
\* One run of a compiled branch subgraph (create_market_subgraph /
\* create_risk_subgraph): START -> worker -> evaluator -> [conditional]
\* ======================================================================
VARIABLES
  branch,        \* which subgraph runs
  st,            \* the subgraph's state (its channels)
  spc,           \* next node: "worker", "evaluator", "END", "raised", "idle"
  steps,         \* supersteps executed by this invoke
  exc,           \* the exception invoke raised, if any
  workerRuns,    \* history: worker executions
  rejections,    \* history: evaluator executions that yielded is_valid=False
  faulted,       \* history: a worker fault or an evaluator failure path happened
  humanSkipped,  \* history: the human answered 'n' (skip)
  hookAnswer,    \* history: the human's last answer, "" while never asked
  givenMaxRetries, \* history: max_retries of the state passed to invoke
  lastEval,      \* history: the path the evaluator took, when it was the last
                 \* node to run: "ok", "failed" (every attempt failed),
                 \* "no_output"; "none" otherwise
  lastWorkerFault, \* history: the last worker execution faulted
  attemptLog,    \* history: success of each judgment call made by the last
                 \* evaluator execution, in order
  inputLog       \* history: for each of those calls, the failure notes (attempt
                 \* numbers) contained in the prompt the call was given

subvars == <<branch, st, spc, steps, exc, workerRuns, rejections, faulted,
             humanSkipped, hookAnswer, givenMaxRetries, lastEval, lastWorkerFault,
             attemptLog, inputLog>>

\* subgraph.invoke(state) for a state built from the inputs only, as the
\* bridge nodes build it; max_retries ranges over what a caller may pass.
SubgraphInvoke(b, maxRetries) ==
  /\ branch = b
  /\ st = Merge(StateDefaults, NewState([symbol |-> "BTC", max_retries |-> maxRetries]))
  /\ spc = "worker"
  /\ steps = 0
  /\ exc = None
  /\ workerRuns = 0
  /\ rejections = 0
  /\ faulted = FALSE
  /\ humanSkipped = FALSE
  /\ hookAnswer = ""
  /\ givenMaxRetries = maxRetries
  /\ lastEval = "none"
  /\ lastWorkerFault = FALSE
  /\ attemptLog = <<>>
  /\ inputLog = <<>>

\* One execution of node "worker" whose computation faults or not.
WorkerStep(fault) ==
  /\ st' = Merge(st, WorkerReturn(st, fault))
  /\ faulted' = (faulted \/ fault)
  /\ lastWorkerFault' = fault
  /\ lastEval' = "none"
  /\ attemptLog' = <<>>
  /\ inputLog' = <<>>

\* Node "worker", then the static edge worker -> evaluator.
Worker ==
  /\ spc = "worker"
  /\ steps < RecursionLimit
  /\ \E fault \in BOOLEAN : WorkerStep(fault)
  /\ spc' = "evaluator"
  /\ steps' = steps + 1
  /\ workerRuns' = workerRuns + 1
  /\ UNCHANGED <<branch, exc, rejections, humanSkipped, hookAnswer, givenMaxRetries>>

\* One execution of node "evaluator" and of the conditional edge, for the
\* outcomes `outs` of the judgment attempts and the human's answer `choice`.
EvaluatorStep(outs, choice) ==
  LET s2    == Merge(st, EvaluatorReturn(st, outs))
      asked == HookAsked(branch, s2)
      route == should_retry_worker(branch, s2, choice)
  IN /\ st' = s2
     /\ spc' = IF route = "raise" THEN "raised" ELSE route
     /\ exc' = IF route = "raise" THEN Some("User aborted risk analysis") ELSE exc
     /\ rejections' = IF ~s2.evaluation[1].is_valid THEN rejections + 1 ELSE rejections
     /\ faulted' = (faulted \/ ~Truthy(st.worker_output) \/ FirstOk(outs) = 0)
     /\ humanSkipped' = (humanSkipped \/ (asked /\ choice = "n"))
     /\ hookAnswer' = IF asked THEN choice ELSE hookAnswer
     /\ lastEval' = EvaluatorPath(st, outs)
     /\ attemptLog' = JudgmentCalls(st, outs)
     /\ inputLog' = JudgmentInputs(branch, st, outs)

\* Node "evaluator", then the conditional edge should_retry_worker.
Evaluator ==
  /\ spc = "evaluator"
  /\ steps < RecursionLimit
  /\ \E outs \in [AttemptIndices -> JudgeOutcomes] :
     \E choice \in Choices : EvaluatorStep(outs, choice)
  /\ steps' = steps + 1
  /\ UNCHANGED <<branch, workerRuns, givenMaxRetries, lastWorkerFault>>

\* The superstep budget is spent while a node is still scheduled.
RecursionError ==
  /\ spc \in {"worker", "evaluator"}
  /\ steps >= RecursionLimit
  /\ spc' = "raised"
  /\ exc' = Some("GraphRecursionError")
  /\ UNCHANGED <<branch, st, steps, workerRuns, rejections, faulted, humanSkipped,
                 hookAnswer, givenMaxRetries, lastEval, lastWorkerFault,
                 attemptLog, inputLog>>

SubgraphStart ==
  \E b \in Branches : \E m \in 0..MaxMaxRetries : SubgraphInvoke(b, m)

\* ======================================================================
\* subgraph.invoke(state) as one call: every result the run can end with.
\* A configuration is the run's state, next node and superstep count.
\* ======================================================================
SubConfig(state, pc, n, e) == [st |-> state, spc |-> pc, steps |-> n, exc |-> e]

SubSuccessors(b, c) ==
  IF c.spc \in {"worker", "evaluator"} /\ c.steps >= RecursionLimit
    THEN {SubConfig(c.st, "raised", c.steps, Some("GraphRecursionError"))}
  ELSE IF c.spc = "worker"
    THEN {SubConfig(Merge(c.st, WorkerReturn(c.st, fault)), "evaluator", c.steps + 1, None) :
            fault \in BOOLEAN}
  ELSE IF c.spc = "evaluator"
    THEN UNION {
           LET s2 == Merge(c.st, EvaluatorReturn(c.st, outs))
           IN {LET route == should_retry_worker(b, s2, choice)
               IN IF route = "raise"
                    THEN SubConfig(s2, "raised", c.steps + 1, Some("User aborted risk analysis"))
                    ELSE SubConfig(s2, route, c.steps + 1, None) :
                 choice \in Choices} :
           outs \in [AttemptIndices -> JudgeOutcomes]}
  ELSE {}

RECURSIVE SubReach(_, _, _)
SubReach(b, frontier, seen) ==
  IF frontier = {} THEN seen
  ELSE LET new == (UNION {SubSuccessors(b, c) : c \in frontier}) \ seen
       IN SubReach(b, new, seen \cup new)

\* The state the bridge nodes pass to invoke: inputs only.
BridgeState == Merge(StateDefaults, NewState([symbol |-> "BTC"]))

\* What invoke returns or raises: [raised, exc, st].
SubgraphOutcomes(b) ==
  LET start == SubConfig(BridgeState, "worker", 0, None)
      all   == SubReach(b, {start}, {start})
  IN {[raised |-> c.spc = "raised", exc |-> c.exc, st |-> c.st] :
        c \in {d \in all : d.spc \in {END, "raised"}}}

MarketOutcomes == SubgraphOutcomes("market")
SentimentOutcomes == SubgraphOutcomes("sentiment")
RiskOutcomes == SubgraphOutcomes("risk")

\* ======================================================================
\* The parent graph (create_hierarchical_graph) and DecisionEngine.decide
\* ======================================================================
ParentNodes ==
  {"supervisor", "market_subgraph", "sentiment_subgraph", "risk_subgraph", "final_decision"}

BridgeNodes == {"market_subgraph", "sentiment_subgraph", "risk_subgraph"}

\* RouterDecision.next_action: the Literal the parser accepts.
RouterActions ==
  {"market_subgraph", "sentiment_subgraph", "risk_subgraph", "final_decision", "END"}

\* What the router's judgment call can produce: an error, or a raw
\* next_action (one of them outside the Literal).
RouterOutcomes ==
  {[kind |-> "error"]} \cup
  {[kind |-> "raw", next_action |-> a] : a \in RouterActions \cup {"ml_subgraph"}}

\* The keys of the conditional-edge table.
EdgeKeys ==
  {"market_subgraph", "sentiment_subgraph", "risk_subgraph", "final_decision", "END"}

\* The conditional-edge table declared for supervisor and for every bridge.
EdgeTable(key) == IF key = "END" THEN END ELSE key

OutputField(node) ==
  CASE node = "market_subgraph" -> "market_agent_output"
    [] node = "sentiment_subgraph" -> "sentiment_agent_output"
    [] node = "risk_subgraph" -> "risk_agent_output"

\* DecisionContext as decide builds it (the fields the graph reads or writes).
NewContext ==
  [ symbol |-> "BTC",
    supervisor_plan |-> None,
    market_agent_output |-> None,
    sentiment_agent_output |-> None,
    ml_agent_output |-> None,
    risk_agent_output |-> None,
    decision_agent_output |-> None,
    final_decision |-> None ]

fallback_routerWithML(context) ==
  IF ~Truthy(context.market_agent_output) THEN "market_subgraph"
  ELSE IF ~Truthy(context.sentiment_agent_output) THEN "sentiment_subgraph"
  ELSE IF ~Truthy(context.ml_agent_output) THEN "ml_subgraph"
  ELSE IF ~Truthy(context.risk_agent_output) THEN "risk_subgraph"
  ELSE IF ~Truthy(context.final_decision) THEN "final_decision"
  ELSE "END"

fallback_routerRiskFirst(context) ==
  IF ~Truthy(context.risk_agent_output) THEN "risk_subgraph"
  ELSE IF ~Truthy(context.market_agent_output) THEN "market_subgraph"
  ELSE IF ~Truthy(context.sentiment_agent_output) THEN "sentiment_subgraph"
  ELSE IF ~Truthy(context.final_decision) THEN "final_decision"
  ELSE "END"

\* fallback_router: the sequential logic used when the judgment fails.
fallback_router(context) ==
  IF ~Truthy(context.market_agent_output) THEN "market_subgraph"
  ELSE IF ~Truthy(context.sentiment_agent_output) THEN "sentiment_subgraph"
  ELSE IF ~Truthy(context.risk_agent_output) THEN "risk_subgraph"
  ELSE IF ~Truthy(context.final_decision) THEN "final_decision"
  ELSE "END"

\* The router's judgment call returned and parsed into a RouterDecision.
RouterJudgmentOk(j) == j.kind = "raw" /\ j.next_action \in RouterActions

route_next_subgraphNoGuard(context, j) ==
  IF j.kind = "raw" /\ j.next_action \in RouterActions THEN j.next_action
  ELSE fallback_router(context)

route_next_subgraphUnparsed(context, j) ==
  IF Truthy(context.final_decision) THEN "END"
  ELSE IF j.kind = "raw" THEN j.next_action
  ELSE fallback_router(context)

\* route_next_subgraph for the outcome `j` of its judgment call.
route_next_subgraph(context, j) ==
  IF Truthy(context.final_decision) THEN "END"
  ELSE IF j.kind = "raw" /\ j.next_action \in RouterActions THEN j.next_action
  ELSE fallback_router(context)

\* ------------------------------------------------------------- bridges
\* The subgraph run stopped on a worker output its last evaluation rejected.
EndsRejected(state) ==
  /\ Truthy(state.worker_output)
  /\ Truthy(state.evaluation)
  /\ ~state.evaluation[1].is_valid

EmptyOutput == [worker_output |-> None, evaluation |-> None, error |-> None]

OrEmpty(out) == IF Truthy(out) THEN out[1] ELSE EmptyOutput

BridgeOutputDropsError(prev, r) == prev

\* The bridge's mapping of the subgraph result `r` into the branch output
\* `prev` already in the context (market_subgraph_node and its siblings).
BridgeOutput(prev, r) ==
  IF r.raised
    THEN Some([EmptyOutput EXCEPT !.error = r.exc])
    ELSE
      LET o1 == IF Truthy(r.st.worker_output)
                  THEN Some([EmptyOutput EXCEPT !.worker_output = r.st.worker_output])
                  ELSE prev
          o2 == IF Truthy(r.st.evaluation)
                  THEN Some([OrEmpty(o1) EXCEPT !.evaluation = r.st.evaluation])
                  ELSE o1
          o3 == IF Truthy(r.st.error)
                  THEN Some([OrEmpty(o2) EXCEPT !.error = r.st.error])
                  ELSE o2
      IN o3

\* The proposal risk_subgraph_node puts into the risk state: the default
\* (buy, 1) unless the context holds a decision already.
RiskProposal(context) ==
  IF Truthy(context.decision_agent_output)
    THEN [action |-> context.decision_agent_output[1].action,
          quantity |-> context.decision_agent_output[1].quantity]
    ELSE [action |-> "buy", quantity |-> 1]

\* The proposal a bridge evaluates: only the risk bridge has one.
Proposal(n, context) ==
  IF n = "risk_subgraph" THEN Some(RiskProposal(context)) ELSE None

\* A bridge that builds a new context around its branch's output.
BridgeContextFresh(context, n, r) ==
  [NewContext EXCEPT ![OutputField(n)] = BridgeOutput(context[OutputField(n)], r)]

\* The context a bridge node returns: the object it was given, with only
\* its own branch's output assigned.
BridgeContext(context, n, r) ==
  [context EXCEPT ![OutputField(n)] = BridgeOutput(@, r)]

OutcomesOf(node) ==
  CASE node = "market_subgraph" -> MarketOutcomes
    [] node = "sentiment_subgraph" -> SentimentOutcomes
    [] node = "risk_subgraph" -> RiskOutcomes

\* ---------------------------------------------------------- aggregator
Actions == {"buy", "sell", "hold"}

\* What the aggregator's judgment call can produce before parsing.
RawDecisions ==
  { [action |-> "buy",   confidence |-> 8,  quantity |-> 1, risk_approved |-> TRUE],
    [action |-> "hold",  confidence |-> 5,  quantity |-> 0, risk_approved |-> FALSE],
    [action |-> "short", confidence |-> 5,  quantity |-> 1, risk_approved |-> TRUE],
    [action |-> "sell",  confidence |-> 12, quantity |-> 1, risk_approved |-> TRUE] }

AggregatorOutcomes == {[kind |-> "error"]} \cup {[kind |-> "raw", d |-> d] : d \in RawDecisions}

\* FinalTradingDecision: Literal action, confidence in [0,1], quantity >= 0.
DecisionSchemaAcceptsAll(d) == TRUE

DecisionSchemaValid(d) ==
  /\ d.action \in Actions
  /\ d.confidence \in 0..10
  /\ d.quantity >= 0

Decision(d, why) ==
  [ action |-> d.action, confidence |-> d.confidence, quantity |-> d.quantity,
    risk_approved |-> d.risk_approved, reasoning |-> why ]

SafeFallbackDecision ==
  [ action |-> "hold", confidence |-> 0, quantity |-> 0,
    risk_approved |-> FALSE, reasoning |-> "Error in decision synthesis" ]

\* The judgment call returned and its output parsed into FinalTradingDecision.
AggregatorOk(j) == j.kind = "raw" /\ DecisionSchemaValid(j.d)

\* The static edge out of node "final_decision".
AfterFinalDecisionLoops == "final_decision"

AfterFinalDecision == END

final_decision_nodeNoFallback(context, j) ==
  IF AggregatorOk(j)
    THEN [context EXCEPT !.final_decision = Some(Decision(j.d, "synthesis")),
                         !.decision_agent_output = Some(Decision(j.d, "synthesis"))]
    ELSE context

final_decision_node(context, j) ==
  IF AggregatorOk(j)
    THEN [context EXCEPT !.final_decision = Some(Decision(j.d, "synthesis")),
                         !.decision_agent_output = Some(Decision(j.d, "synthesis"))]
    ELSE [context EXCEPT !.final_decision = Some(SafeFallbackDecision)]

\* ---------------------------------------------------------- supervisor
supervisor_agent(context, ok) ==
  [context EXCEPT !.supervisor_plan = Some(IF ok THEN "plan" ELSE "default plan")]

\* ------------------------------------------------- DecisionEngine.decide
VARIABLES
  dpc,        \* decide: "idle", "invoking" (inside graph.invoke), "returned",
              \* "blocked" (inside a judgment call that does not return)
  node,       \* next parent node, END, or "raised"
  ctx,        \* the DecisionContext threaded through the parent graph
  psteps,     \* supersteps executed by the parent invoke
  pexc,       \* the exception the parent invoke raised, if any
  ret,        \* the value decide returned, if it has
  aggRuns,    \* history: executions of final_decision_node
  abortSeen,  \* history: the human answered 'a' in the risk subgraph
  aggJudge,   \* history: the aggregator's judgment call: "none", "ok", "failed"
  lastBridge, \* history: the bridge node that ran last and its subgraph result
  rfn,        \* history: the router function called last, "none" before
  rj,         \* history: the outcome of that call's judgment
  routed,     \* history: the key that call returned
  onlyFallback \* history: no router judgment of this invoke has succeeded

\* A second invocation of the same compiled subgraph on an equal state.
VARIABLES
  st2,         \* the second invocation's state
  spc2,        \* the second invocation's next node
  sameAnswers  \* history: the human gave both invocations the same answers

detvars == <<st2, spc2, sameAnswers>>

\* Two decide calls on the one DecisionEngine, their node executions
\* interleaved.
VARIABLES
  cctx,   \* the DecisionContext objects, by slot
  inv,    \* per invocation: decide's position, next node, supersteps, result
  cwho    \* history: the invocation that made the last step, 0 before

concvars == <<cctx, inv, cwho>>

\* One call of evaluate_rules (tools/rules.py).
VARIABLES
  rules,     \* the rule list given
  rcontext,  \* the analysis context given: the value at market.rsi, if any
  rresult    \* what evaluate_rules returned, None before the call

rulevars == <<rules, rcontext, rresult>>

\* One call of enrich_rule (graph/rule_enrichment_graph.py).
VARIABLES
  epc,      \* enrich_rule: "idle", the next node of the enrichment graph, END,
            \* "raised" (invoke raised), "returned"
  est,      \* the RuleEnrichmentState of the run
  eexc,     \* the exception invoke raised, if any
  eret,     \* what enrich_rule returned: None or the structured rule
  echoice   \* history: the user's choice at the verification prompt, "" if
            \* the prompt was not reached

enrichvars == <<epc, est, eexc, eret, echoice>>

auxvars == <<detvars, concvars, rulevars, enrichvars>>

pipevars == <<dpc, node, ctx, psteps, pexc, ret, aggRuns, abortSeen,
              aggJudge, lastBridge, rfn, rj, routed, onlyFallback>>

routervars == <<rfn, rj, routed>>

vars == <<branch, st, spc, steps, exc, workerRuns, rejections, faulted,
          humanSkipped, hookAnswer, givenMaxRetries, lastEval, lastWorkerFault,
          attemptLog, inputLog, dpc, node, ctx, psteps, pexc, ret, aggRuns, abortSeen,
          aggJudge, lastBridge, rfn, rj, routed, onlyFallback, st2, spc2, sameAnswers,
          cctx, inv, cwho, rules, rcontext, rresult,
          epc, est, eexc, eret, echoice>>

\* No second invocation.
DetIdle ==
  /\ st2 = StateDefaults
  /\ spc2 = "idle"
  /\ sameAnswers = TRUE

Invocations == {1, 2}

\* The subjects of the two calls.
Subject(i) == IF i = 1 THEN "BTC" ELSE "ETH"

IdleInvocation == [dpc |-> "idle", node |-> "none", steps |-> 0, ret |-> None]

\* No concurrent decide calls.
ConcIdle ==
  /\ cctx = [i \in Invocations |-> NewContext]
  /\ inv = [i \in Invocations |-> IdleInvocation]
  /\ cwho = 0

\* evaluate_rules not called.
RulesIdle ==
  /\ rules = <<>>
  /\ rcontext = None
  /\ rresult = None

\* RuleEnrichmentState(user_query=...): every other field at its default.
NewEnrichmentState ==
  [ user_query |-> "query",
    parsed_intent |-> None,
    missing_info |-> <<>>,
    clarifying_questions |-> <<>>,
    user_answers |-> <<>>,
    structured_rule |-> None,
    is_valid |-> FALSE,
    validation_errors |-> <<>>,
    user_confirmed |-> FALSE,
    user_modifications |-> None,
    completed |-> FALSE,
    error |-> None ]

\* enrich_rule not called.
EnrichIdle ==
  /\ epc = "idle"
  /\ est = NewEnrichmentState
  /\ eexc = None
  /\ eret = None
  /\ echoice = ""

AuxIdle == DetIdle /\ ConcIdle /\ RulesIdle /\ EnrichIdle

NoBridge ==
  [node |-> "none", raised |-> FALSE, exc |-> None, error |-> None, rejected |-> FALSE,
   proposal |-> None]

NoJudgment == [kind |-> "none"]

\* The router has not been called.
RouterIdle ==
  /\ rfn = "none"
  /\ rj = NoJudgment
  /\ routed = "none"

UserAbort == Some("User aborted risk analysis")

\* No decide call in progress.
PipelineIdle ==
  /\ dpc = "idle"
  /\ node = "none"
  /\ ctx = NewContext
  /\ psteps = 0
  /\ pexc = None
  /\ ret = None
  /\ aggRuns = 0
  /\ abortSeen = FALSE
  /\ aggJudge = "none"
  /\ lastBridge = NoBridge
  /\ onlyFallback = TRUE
  /\ RouterIdle

\* No standalone subgraph run in progress.
SubgraphIdle ==
  /\ branch = "none"
  /\ st = StateDefaults
  /\ spc = "idle"
  /\ steps = 0
  /\ exc = None
  /\ workerRuns = 0
  /\ rejections = 0
  /\ faulted = FALSE
  /\ humanSkipped = FALSE
  /\ hookAnswer = ""
  /\ givenMaxRetries = 0
  /\ lastEval = "none"
  /\ lastWorkerFault = FALSE
  /\ attemptLog = <<>>
  /\ inputLog = <<>>

\* The except branch of decide.
ExceptionResult(msg) ==
  [ action |-> "hold", confidence |-> 0,
    reasoning |-> "Error in decision workflow", error |-> Some(msg) ]

NoDecisionResult ==
  [ action |-> "hold", confidence |-> 0,
    reasoning |-> "No decision produced by workflow", error |-> None ]

\* decide's extraction of the decision from the context invoke returned.
DecideResult(context) ==
  LET fd == IF Truthy(context.final_decision)
              THEN context.final_decision
              ELSE context.decision_agent_output
  IN IF fd = None
       THEN NoDecisionResult
       ELSE [ action |-> fd[1].action, confidence |-> fd[1].confidence,
              reasoning |-> fd[1].reasoning, error |-> None ]

StepBudgetUnbounded(n) == TRUE

\* invoke runs another superstep only while the step budget is not used up.
StepBudgetLeft(n) == n < RecursionLimit

\* decide is called: the context is built (malformed rules raise here) and
\* graph.invoke starts at the entry point.
DecideStart ==
  /\ dpc = "idle"
  /\ \E badRules \in BOOLEAN :
       IF badRules
         THEN /\ dpc' = "returned"
              /\ ret' = Some(ExceptionResult("KeyError"))
              /\ UNCHANGED <<node, ctx, psteps>>
         ELSE /\ dpc' = "invoking"
              /\ node' = "supervisor"
              /\ ctx' = NewContext
              /\ psteps' = 0
              /\ ret' = ret
  /\ UNCHANGED <<pexc, aggRuns, abortSeen, aggJudge, lastBridge, onlyFallback,
                 routervars>>
  /\ UNCHANGED <<subvars, auxvars>>

\* Node "supervisor" and its conditional edge.
Supervisor ==
  /\ dpc = "invoking" /\ node = "supervisor" /\ StepBudgetLeft(psteps)
  /\ \E ok \in BOOLEAN : \E j \in RouterOutcomes :
       LET c2 == supervisor_agent(ctx, ok)
       IN /\ ctx' = c2
          /\ node' = EdgeTable(route_next_subgraph(c2, j))
          /\ rfn' = "route_next_subgraph"
          /\ rj' = j
          /\ routed' = route_next_subgraph(c2, j)
          /\ onlyFallback' = (onlyFallback /\ ~RouterJudgmentOk(j))
  /\ psteps' = psteps + 1
  /\ UNCHANGED <<dpc, pexc, ret, aggRuns, abortSeen, aggJudge, lastBridge>>
  /\ UNCHANGED <<subvars, auxvars>>

\* A bridge node: build the branch state, run the subgraph to completion,
\* map its result into the context; then the conditional edge.
Bridge(n) ==
  /\ dpc = "invoking" /\ node = n /\ StepBudgetLeft(psteps)
  /\ \E r \in OutcomesOf(n) : \E j \in RouterOutcomes :
       LET c2 == BridgeContext(ctx, n, r)
       IN /\ ctx' = c2
          /\ node' = EdgeTable(route_next_subgraph(c2, j))
          /\ abortSeen' = (abortSeen \/ (r.raised /\ r.exc = UserAbort))
          /\ lastBridge' = [node |-> n, raised |-> r.raised, exc |-> r.exc,
                            error |-> r.st.error, rejected |-> EndsRejected(r.st),
                            proposal |-> Proposal(n, ctx)]
          /\ rfn' = "route_next_subgraph"
          /\ rj' = j
          /\ routed' = route_next_subgraph(c2, j)
          /\ onlyFallback' = (onlyFallback /\ ~RouterJudgmentOk(j))
  /\ psteps' = psteps + 1
  /\ UNCHANGED <<dpc, pexc, ret, aggRuns, aggJudge>>
  /\ UNCHANGED <<subvars, auxvars>>

MarketSubgraphNode == Bridge("market_subgraph")
SentimentSubgraphNode == Bridge("sentiment_subgraph")
RiskSubgraphNode == Bridge("risk_subgraph")

\* Node "final_decision" and its static edge to END.
FinalDecisionNode ==
  /\ dpc = "invoking" /\ node = "final_decision" /\ StepBudgetLeft(psteps)
  /\ \E j \in AggregatorOutcomes :
       /\ ctx' = final_decision_node(ctx, j)
       /\ aggJudge' = IF AggregatorOk(j) THEN "ok" ELSE "failed"
  /\ node' = AfterFinalDecision
  /\ psteps' = psteps + 1
  /\ aggRuns' = aggRuns + 1
  /\ UNCHANGED <<dpc, pexc, ret, abortSeen, lastBridge, onlyFallback,
                 routervars>>
  /\ UNCHANGED <<subvars, auxvars>>

ParentRecursionError ==
  /\ dpc = "invoking" /\ node \in ParentNodes /\ ~StepBudgetLeft(psteps)
  /\ node' = "raised"
  /\ pexc' = Some("GraphRecursionError")
  /\ UNCHANGED <<dpc, ctx, psteps, ret, aggRuns, abortSeen, aggJudge, lastBridge,
                 onlyFallback, routervars>>
  /\ UNCHANGED <<subvars, auxvars>>

\* A node's judgment call (chain.invoke in the supervisor, an evaluator, the
\* router or the aggregator) does not return: no timeout is passed to the
\* model or put around the call, so the node, invoke and decide wait on it.
JudgmentHangs ==
  /\ dpc = "invoking" /\ node \in ParentNodes /\ StepBudgetLeft(psteps)
  /\ dpc' = "blocked"
  /\ UNCHANGED <<node, ctx, psteps, pexc, ret, aggRuns, abortSeen, aggJudge, lastBridge,
                 onlyFallback, routervars>>
  /\ UNCHANGED <<subvars, auxvars>>

\* graph.invoke returned or raised: decide builds its return value.
DecideReturn ==
  /\ dpc = "invoking" /\ node \in {END, "raised"}
  /\ ret' = IF node = "raised" THEN Some(ExceptionResult(pexc[1]))
                               ELSE Some(DecideResult(ctx))
  /\ dpc' = "returned"
  /\ UNCHANGED <<node, ctx, psteps, pexc, aggRuns, abortSeen, aggJudge, lastBridge,
                 onlyFallback, routervars>>
  /\ UNCHANGED <<subvars, auxvars>>

Init == PipelineIdle /\ SubgraphIdle /\ AuxIdle

\* A branch subgraph invoked on its own, no decide call around it.
SubgraphInit == SubgraphStart /\ PipelineIdle /\ AuxIdle

SubgraphNext ==
  \/ (Worker /\ UNCHANGED <<pipevars, auxvars>>)
  \/ (Evaluator /\ UNCHANGED <<pipevars, auxvars>>)
  \/ (RecursionError /\ UNCHANGED <<pipevars, auxvars>>)

SubgraphSpec == SubgraphInit /\ [][SubgraphNext]_vars

Next ==
  \/ DecideStart
  \/ Supervisor
  \/ MarketSubgraphNode
  \/ SentimentSubgraphNode
  \/ RiskSubgraphNode
  \/ FinalDecisionNode
  \/ ParentRecursionError
  \/ JudgmentHangs
  \/ DecideReturn

Spec == Init /\ [][Next]_vars

\* ======================================================================
\* One node function applied to an arbitrary well-typed subgraph state
\* (the node functions are importable and callable on their own).
\* ======================================================================
ParsedVerdicts == {v \in RawVerdicts : SchemaValid(v)}

TypedStates ==
  [ symbol : {"BTC"},
    worker_output : {None, Some("facts")},
    evaluation : {None} \cup {Some(v) : v \in ParsedVerdicts},
    retry_count : 0..(MaxMaxRetries + 1),
    max_retries : 0..MaxMaxRetries,
    evaluator_feedback : {None} \cup {Some(Feedback(v)) : v \in ParsedVerdicts},
    completed : BOOLEAN,
    error : {None, Some("worker failed")} ]

NodeInit ==
  /\ branch \in Branches
  /\ st \in TypedStates
  /\ spc \in {"worker", "evaluator"}
  /\ steps = 0
  /\ exc = None
  /\ workerRuns = 0
  /\ rejections = 0
  /\ faulted = FALSE
  /\ humanSkipped = FALSE
  /\ hookAnswer = ""
  /\ givenMaxRetries = st.max_retries
  /\ lastEval = "none"
  /\ lastWorkerFault = FALSE
  /\ attemptLog = <<>>
  /\ inputLog = <<>>
  /\ PipelineIdle
  /\ AuxIdle

NodeWorker == steps = 0 /\ Worker /\ UNCHANGED <<pipevars, auxvars>>

NodeEvaluator == steps = 0 /\ Evaluator /\ UNCHANGED <<pipevars, auxvars>>

NodeNext == NodeWorker \/ NodeEvaluator

NodeSpec == NodeInit /\ [][NodeNext]_vars

\* ======================================================================
\* The conditional edge should_retry_worker applied on its own to an
\* arbitrary well-typed subgraph state.
\* ======================================================================
DeciderInit ==
  /\ branch \in Branches
  /\ st \in TypedStates
  /\ spc = "decider"
  /\ steps = 0
  /\ exc = None
  /\ workerRuns = 0
  /\ rejections = 0
  /\ faulted = FALSE
  /\ humanSkipped = FALSE
  /\ hookAnswer = ""
  /\ givenMaxRetries = st.max_retries
  /\ lastEval = "none"
  /\ lastWorkerFault = FALSE
  /\ attemptLog = <<>>
  /\ inputLog = <<>>
  /\ PipelineIdle
  /\ AuxIdle

\* should_retry_worker(state), the human answering `choice` when asked.
Decider ==
  /\ spc = "decider"
  /\ \E choice \in Choices :
       LET route == should_retry_worker(branch, st, choice)
           asked == HookAsked(branch, st)
       IN /\ spc' = IF route = "raise" THEN "raised" ELSE route
          /\ exc' = IF route = "raise" THEN Some("User aborted risk analysis") ELSE exc
          /\ humanSkipped' = (humanSkipped \/ (asked /\ choice = "n"))
          /\ hookAnswer' = IF asked THEN choice ELSE hookAnswer
  /\ UNCHANGED <<branch, st, steps, workerRuns, rejections, faulted,
                 givenMaxRetries, lastEval, lastWorkerFault,
                 attemptLog, inputLog>>
  /\ UNCHANGED <<pipevars, auxvars>>

DeciderNext == Decider

DeciderSpec == DeciderInit /\ [][DeciderNext]_vars

\* ======================================================================
\* Two invocations of one compiled branch subgraph on equal states, run
\* side by side.  The judgment function is a deterministic stub: the two
\* evaluators, given equal prompts, get the same outcomes `outs`.  The
\* human's answers at the risk prompt are not part of the stub.
\* ======================================================================
AnyComputation(s1, s2, f1, f2) == TRUE

\* The workers compute from the state alone (indicators from prices, risk
\* checks from the proposal): on equal states they fault alike.
SameComputation(s1, s2, f1, f2) == (s1 = s2) => (f1 = f2)

DetInit ==
  /\ SubgraphStart
  /\ PipelineIdle
  /\ ConcIdle
  /\ RulesIdle
  /\ EnrichIdle
  /\ st2 = st
  /\ spc2 = spc
  /\ sameAnswers = TRUE

DetWorker ==
  /\ spc = "worker" /\ spc2 = "worker"
  /\ steps < RecursionLimit
  /\ \E f1 \in BOOLEAN : \E f2 \in BOOLEAN :
       /\ SameComputation(st, st2, f1, f2)
       /\ WorkerStep(f1)
       /\ st2' = Merge(st2, WorkerReturn(st2, f2))
  /\ spc' = "evaluator"
  /\ spc2' = "evaluator"
  /\ steps' = steps + 1
  /\ workerRuns' = workerRuns + 1
  /\ UNCHANGED <<branch, exc, rejections, humanSkipped, hookAnswer, givenMaxRetries,
                 sameAnswers>>
  /\ UNCHANGED <<pipevars, concvars, rulevars, enrichvars>>

DetEvaluator ==
  /\ spc = "evaluator" /\ spc2 = "evaluator"
  /\ steps < RecursionLimit
  /\ \E outs \in [AttemptIndices -> JudgeOutcomes] :
     \E c1 \in Choices : \E c2 \in Choices :
       LET s2b == Merge(st2, EvaluatorReturn(st2, outs))
           r2  == should_retry_worker(branch, s2b, c2)
       IN /\ EvaluatorStep(outs, c1)
          /\ st2' = s2b
          /\ spc2' = IF r2 = "raise" THEN "raised" ELSE r2
          /\ sameAnswers' = (sameAnswers /\ (HookAsked(branch, s2b) => c1 = c2))
  /\ steps' = steps + 1
  /\ UNCHANGED <<branch, workerRuns, givenMaxRetries, lastWorkerFault>>
  /\ UNCHANGED <<pipevars, concvars, rulevars, enrichvars>>

DetRecursionError ==
  /\ spc2 \in {"worker", "evaluator"}
  /\ RecursionError
  /\ spc2' = "raised"
  /\ UNCHANGED <<st2, sameAnswers>>
  /\ UNCHANGED <<pipevars, concvars, rulevars, enrichvars>>

DetNext == DetWorker \/ DetEvaluator \/ DetRecursionError

DetSpec == DetInit /\ [][DetNext]_vars

\* ======================================================================
\* Two decide calls for different symbols on the shared engine, as two
\* threads would make them: each superstep of either call is one step.
\* ======================================================================
MaxConcSteps == 2

ContextSlotShared(i) == 1

\* decide keeps its DecisionContext in a local variable: one object per call.
ContextSlot(i) == i

\* One superstep of the parent graph: the contexts and next nodes that
\* executing node n on context c can give.
NodeSuccessors(c, n) ==
  IF n = "supervisor"
    THEN {[ctx |-> supervisor_agent(c, ok),
           node |-> EdgeTable(route_next_subgraph(supervisor_agent(c, ok), j))] :
            ok \in BOOLEAN, j \in RouterOutcomes}
  ELSE IF n \in BridgeNodes
    THEN {LET c2 == [c EXCEPT ![OutputField(n)] = BridgeOutput(@, r)]
          IN [ctx |-> c2, node |-> EdgeTable(route_next_subgraph(c2, j))] :
            r \in OutcomesOf(n), j \in RouterOutcomes}
  ELSE IF n = "final_decision"
    THEN {[ctx |-> final_decision_node(c, j), node |-> AfterFinalDecision] :
            j \in AggregatorOutcomes}
  ELSE {}

ConcInit ==
  /\ PipelineIdle
  /\ SubgraphIdle
  /\ DetIdle
  /\ ConcIdle
  /\ RulesIdle
  /\ EnrichIdle

\* Call i enters decide: its context is built and invoke starts.
ConcStart(i) ==
  /\ inv[i].dpc = "idle"
  /\ cctx' = [cctx EXCEPT ![ContextSlot(i)] = [NewContext EXCEPT !.symbol = Subject(i)]]
  /\ inv' = [inv EXCEPT ![i] = [dpc |-> "invoking", node |-> "supervisor",
                                steps |-> 0, ret |-> None]]
  /\ cwho' = i

\* Call i executes its next node.
ConcNode(i) ==
  /\ inv[i].dpc = "invoking"
  /\ inv[i].node \in ParentNodes
  /\ inv[i].steps < MaxConcSteps
  /\ \E s \in NodeSuccessors(cctx[ContextSlot(i)], inv[i].node) :
       /\ cctx' = [cctx EXCEPT ![ContextSlot(i)] = s.ctx]
       /\ inv' = [inv EXCEPT ![i].node = s.node, ![i].steps = @ + 1]
  /\ cwho' = i

\* Call i's invoke returned: decide extracts the decision.
ConcReturn(i) ==
  /\ inv[i].dpc = "invoking"
  /\ inv[i].node = END
  /\ inv' = [inv EXCEPT ![i].dpc = "returned",
                        ![i].ret = Some(DecideResult(cctx[ContextSlot(i)]))]
  /\ cwho' = i
  /\ UNCHANGED cctx

ConcStep(i) == ConcStart(i) \/ ConcNode(i) \/ ConcReturn(i)

ConcNext ==
  /\ \E i \in Invocations : ConcStep(i)
  /\ UNCHANGED <<pipevars, subvars, detvars, rulevars, enrichvars>>

ConcSpec == ConcInit /\ [][ConcNext]_vars

\* ======================================================================
\* tools/rules.py: evaluate_rules applied once to a rule list and a context
\* ======================================================================
MaxRules == 2

Condition(f, op, v) == [field |-> f, operator |-> op, value |-> v]

Rule(conds, lg, act, conf) ==
  [conditions |-> conds, logic |-> lg, action |-> act, confidence |-> conf]

\* The rule specifications drawn as inputs (confidence in tenths).
RuleSamples ==
  { Rule(<<Condition("market.rsi", "lt", 30)>>, "AND", Some("buy"), 8),
    Rule(<<Condition("market.rsi", "gt", 70)>>, "AND", Some("sell"), 10),
    Rule(<<Condition("market.rsi", "lt", 30), Condition("market.rsi", "gt", 70)>>,
         "OR", Some("sell"), 5),
    Rule(<<Condition("market.rsi", "gte", 25), Condition("market.rsi", "lte", 25)>>,
         "AND", Some("hold"), 9),
    Rule(<<Condition("market.rsi", "gt", 0)>>, "AND", Some("buy"), 7),
    Rule(<<>>, "AND", Some("buy"), 10),
    Rule(<<Condition("market.rsi", "lt", 30)>>, "XOR", Some("sell"), 10),
    Rule(<<Condition("market.ema", "gt", 30), Condition("market.rsi", "between", 30)>>,
         "OR", Some("buy"), 6),
    Rule(<<Condition("market.rsi", "neq", 80)>>, "AND", None, 10) }

RuleLists == UNION {[1..n -> RuleSamples] : n \in 0..MaxRules}

\* The contexts drawn as inputs: market.rsi absent, 25 or 80.
RuleContexts == {None, Some(25), Some(80)}

\* context[...] along the dotted path; only market.rsi is in the context.
FieldValue(context, f) == IF f = "market.rsi" THEN context ELSE None

\* Python truthiness of a condition's value: 0 is falsy.
Given(v) == v # 0

Compare(op, x, v) ==
  CASE op = "gt" -> x > v
    [] op = "lt" -> x < v
    [] op = "gte" -> x >= v
    [] op = "lte" -> x <= v
    [] op = "eq" -> x = v
    [] op = "neq" -> x # v
    [] OTHER -> FALSE

parse_rule_condition(condition, context) ==
  IF ~Given(condition.value) THEN FALSE
  ELSE IF FieldValue(context, condition.field) = None THEN FALSE
  ELSE Compare(condition.operator, FieldValue(context, condition.field)[1], condition.value)

evaluate_rule(rule, context) ==
  LET conds   == rule.conditions
      matched ==
        IF Len(conds) = 0 THEN FALSE
        ELSE IF rule.logic = "AND"
          THEN \A i \in 1..Len(conds) : parse_rule_condition(conds[i], context)
        ELSE IF rule.logic = "OR"
          THEN \E i \in 1..Len(conds) : parse_rule_condition(conds[i], context)
        ELSE FALSE
  IN [ matched |-> matched,
       action |-> IF matched THEN rule.action ELSE None,
       confidence |-> IF matched THEN rule.confidence ELSE 0 ]

\* max(matched_results, key=confidence): the first of the best.
BestMatch(ms) ==
  ms[CHOOSE i \in 1..Len(ms) :
       /\ \A k \in 1..Len(ms) : ms[k].confidence <= ms[i].confidence
       /\ \A k \in 1..(i - 1) : ms[k].confidence < ms[i].confidence]

IsMatched(r) == r.matched

evaluate_rules(rs, context) ==
  LET results == [i \in 1..Len(rs) |-> evaluate_rule(rs[i], context)]
      matched_results == SelectSeq(results, IsMatched)
  IN [ rules_evaluated |-> Len(results),
       rules_matched |-> Len(matched_results),
       matched_rules |-> matched_results,
       recommended_action |->
         IF Len(matched_results) > 0 THEN BestMatch(matched_results).action ELSE None ]

RulesInit ==
  /\ PipelineIdle
  /\ SubgraphIdle
  /\ DetIdle
  /\ ConcIdle
  /\ EnrichIdle
  /\ rules \in RuleLists
  /\ rcontext \in RuleContexts
  /\ rresult = None

EvaluateRules ==
  /\ rresult = None
  /\ rresult' = Some(evaluate_rules(rules, rcontext))
  /\ UNCHANGED <<rules, rcontext>>
  /\ UNCHANGED <<pipevars, subvars, detvars, concvars, enrichvars>>

RulesNext == EvaluateRules

RulesSpec == RulesInit /\ [][RulesNext]_vars

\* ======================================================================
\* One call of enrich_rule: the rule enrichment graph
\* parse_intent -> identify_missing -> generate_questions ->
\* [collect_answers ->] build_rule -> human_verification -> END
\* ======================================================================
\* What a node's llm.invoke gives: the call raises (outside the node's try),
\* the text is not JSON, or it is JSON.
LlmKinds == {"raise", "unparsable", "json"}

MissingLists == {<<>>, <<"threshold">>}

QuestionLists == {<<>>, <<"Which threshold?">>}

\* A rule as the build node's model writes it; None stands for a key that
\* is absent.  A condition is "ok" or "malformed" (no 'operator' key).
EnrichedRule(n, conds, act, lg) ==
  [name |-> n, conditions |-> conds, action |-> act, logic |-> lg]

BuiltRules ==
  { EnrichedRule(Some("r"), Some(<<"ok">>), Some("buy"), Some("AND")),
    EnrichedRule(Some("r"), Some(<<"ok">>), Some("buy"), None),
    EnrichedRule(Some("r"), Some(<<"ok">>), Some("short"), Some("AND")),
    EnrichedRule(Some("r"), Some(<<>>), Some("sell"), Some("OR")),
    EnrichedRule(Some("r"), Some(<<"malformed">>), Some("hold"), Some("AND")) }

BuildOutcomes ==
  {[kind |-> "raise"], [kind |-> "unparsable"]} \cup
  {[kind |-> "json", rule |-> r] : r \in BuiltRules}

required_fields == {"name", "conditions", "action", "logic"}

parse_intent_node(state, kind) ==
  IF kind = "json"
    THEN [state EXCEPT !.parsed_intent = Some("intent")]
    ELSE [state EXCEPT !.error = Some("Failed to parse intent"), !.parsed_intent = None]

identify_missing_info_node(state, kind, missing) ==
  IF kind = "json"
    THEN [state EXCEPT !.missing_info = missing]
    ELSE [state EXCEPT !.error = Some("Failed to identify missing info"),
                       !.missing_info = <<>>]

generate_questions_node(state, kind, questions) ==
  IF Len(state.missing_info) = 0 THEN [state EXCEPT !.clarifying_questions = <<>>]
  ELSE IF kind = "json" THEN [state EXCEPT !.clarifying_questions = questions]
  ELSE [state EXCEPT !.error = Some("Failed to generate questions"),
                     !.clarifying_questions = <<>>]

should_ask_questions(state) ==
  IF Len(state.missing_info) > 0 /\ Len(state.clarifying_questions) > 0
    THEN "collect_answers"
    ELSE "build_rule"

Rejected(state, errors) ==
  [state EXCEPT !.structured_rule = None, !.is_valid = FALSE,
                !.validation_errors = errors]

\* A build node that takes whatever JSON the model wrote.
validate_and_build_rule_nodeUnchecked(state, o) ==
  IF o.kind = "unparsable"
    THEN [Rejected(state, <<"Failed to build rule">>) EXCEPT !.error = Some("not JSON")]
    ELSE [state EXCEPT !.structured_rule = Some(o.rule), !.is_valid = TRUE,
                       !.validation_errors = <<>>]

validate_and_build_rule_node(state, o) ==
  IF o.kind = "unparsable"
    THEN [Rejected(state, <<"Failed to build rule">>) EXCEPT !.error = Some("not JSON")]
  ELSE IF \E f \in required_fields : o.rule[f] = None
    THEN Rejected(state, <<"Missing required field">>)
  ELSE IF o.rule.action[1] \notin Actions
    THEN Rejected(state, <<"Invalid action">>)
  ELSE IF Len(o.rule.conditions[1]) = 0
    THEN Rejected(state, <<"Conditions must be a non-empty list">>)
  ELSE [state EXCEPT !.structured_rule = Some(o.rule), !.is_valid = TRUE,
                     !.validation_errors = <<>>]

\* The rule can be printed by human_verification_node: every condition has
\* the keys the summary reads.
Printable(rule) ==
  \A i \in 1..Len(rule.conditions[1]) : rule.conditions[1][i] = "ok"

VerificationChoices == {"y", "n", "e", "eof"}

\* human_verification_node after the answer `choice` of the user.
human_verification_node(state, choice) ==
  IF ~state.is_valid \/ ~Truthy(state.structured_rule)
    THEN [state EXCEPT !.user_confirmed = FALSE, !.completed = TRUE]
  ELSE IF choice = "y"
    THEN [state EXCEPT !.user_confirmed = TRUE, !.completed = TRUE]
  ELSE IF choice = "e"
    THEN [state EXCEPT !.user_confirmed = FALSE, !.completed = TRUE,
                       !.user_modifications = Some("modifications")]
  ELSE [state EXCEPT !.user_confirmed = FALSE, !.completed = TRUE]

EnrichRaise(e) ==
  /\ epc' = "raised"
  /\ eexc' = Some(e)
  /\ UNCHANGED <<est, eret, echoice>>

EnrichFrame == UNCHANGED <<pipevars, subvars, detvars, concvars, rulevars>>

\* enrich_rule(user_query): the graph is built and invoke starts.
EnrichStart ==
  /\ epc = "idle"
  /\ epc' = "parse_intent"
  /\ UNCHANGED <<est, eexc, eret, echoice>>
  /\ EnrichFrame

ParseIntent ==
  /\ epc = "parse_intent"
  /\ \E kind \in LlmKinds :
       IF kind = "raise" THEN EnrichRaise("llm error")
       ELSE /\ est' = parse_intent_node(est, kind)
            /\ epc' = "identify_missing"
            /\ UNCHANGED <<eexc, eret, echoice>>
  /\ EnrichFrame

IdentifyMissing ==
  /\ epc = "identify_missing"
  /\ \E kind \in LlmKinds : \E missing \in MissingLists :
       IF kind = "raise" THEN EnrichRaise("llm error")
       ELSE /\ est' = identify_missing_info_node(est, kind, missing)
            /\ epc' = "generate_questions"
            /\ UNCHANGED <<eexc, eret, echoice>>
  /\ EnrichFrame

GenerateQuestions ==
  /\ epc = "generate_questions"
  /\ \E kind \in LlmKinds : \E questions \in QuestionLists :
       IF kind = "raise" /\ Len(est.missing_info) > 0 THEN EnrichRaise("llm error")
       ELSE LET s2 == generate_questions_node(est, kind, questions)
            IN /\ est' = s2
               /\ epc' = should_ask_questions(s2)
               /\ UNCHANGED <<eexc, eret, echoice>>
  /\ EnrichFrame

\* collect_answers_node: input() per question; stdin may be closed.
CollectAnswers ==
  /\ epc = "collect_answers"
  /\ \E answered \in BOOLEAN :
       IF ~answered /\ Len(est.clarifying_questions) > 0 THEN EnrichRaise("EOFError")
       ELSE /\ est' = [est EXCEPT !.user_answers =
                         [i \in 1..Len(est.clarifying_questions) |-> "answer"]]
            /\ epc' = "build_rule"
            /\ UNCHANGED <<eexc, eret, echoice>>
  /\ EnrichFrame

BuildRule ==
  /\ epc = "build_rule"
  /\ \E o \in BuildOutcomes :
       IF o.kind = "raise" THEN EnrichRaise("llm error")
       ELSE /\ est' = validate_and_build_rule_node(est, o)
            /\ epc' = "human_verification"
            /\ UNCHANGED <<eexc, eret, echoice>>
  /\ EnrichFrame

HumanVerification ==
  /\ epc = "human_verification"
  /\ \E choice \in VerificationChoices :
       LET asked == est.is_valid /\ Truthy(est.structured_rule)
       IN IF asked /\ ~Printable(est.structured_rule[1]) THEN EnrichRaise("KeyError")
          ELSE IF asked /\ choice = "eof" THEN EnrichRaise("EOFError")
          ELSE /\ est' = human_verification_node(est, choice)
               /\ echoice' = IF asked THEN choice ELSE echoice
               /\ epc' = END
               /\ UNCHANGED <<eexc, eret>>
  /\ EnrichFrame

\* invoke returned or raised: enrich_rule builds its return value.
EnrichReturn ==
  /\ epc \in {END, "raised"}
  /\ eret' = IF epc = END /\ est.user_confirmed /\ Truthy(est.structured_rule)
               THEN est.structured_rule
               ELSE None
  /\ epc' = "returned"
  /\ UNCHANGED <<est, eexc, echoice>>
  /\ EnrichFrame

EnrichInit == PipelineIdle /\ SubgraphIdle /\ AuxIdle

EnrichNext ==
  \/ EnrichStart
  \/ ParseIntent
  \/ IdentifyMissing
  \/ GenerateQuestions
  \/ CollectAnswers
  \/ BuildRule
  \/ HumanVerification
  \/ EnrichReturn

EnrichSpec == EnrichInit /\ [][EnrichNext]_vars

\* ======================================================================
\* The router functions applied to an arbitrary DecisionContext
\* (route_next_subgraph and fallback_router are module-level functions).
\* ======================================================================
SampleOutput == Some([EmptyOutput EXCEPT !.worker_output = Some("facts")])

Contexts ==
  [ symbol : {"BTC"},
    supervisor_plan : {None, Some("plan")},
    market_agent_output : {None, SampleOutput},
    sentiment_agent_output : {None, SampleOutput},
    ml_agent_output : {None, SampleOutput},
    risk_agent_output : {None, SampleOutput},
    decision_agent_output : {None},
    final_decision : {None, Some(SafeFallbackDecision)} ]

RouterInit ==
  /\ SubgraphIdle
  /\ AuxIdle
  /\ dpc = "idle"
  /\ node = "none"
  /\ ctx \in Contexts
  /\ psteps = 0
  /\ pexc = None
  /\ ret = None
  /\ aggRuns = 0
  /\ abortSeen = FALSE
  /\ aggJudge = "none"
  /\ lastBridge = NoBridge
  /\ onlyFallback = TRUE
  /\ RouterIdle

\* One call of route_next_subgraph, its judgment answering j.
ApplyRouter ==
  /\ rfn = "none"
  /\ \E j \in RouterOutcomes :
       /\ rj' = j
       /\ routed' = route_next_subgraph(ctx, j)
  /\ rfn' = "route_next_subgraph"
  /\ UNCHANGED <<dpc, node, ctx, psteps, pexc, ret, aggRuns, abortSeen, aggJudge, lastBridge,
                 onlyFallback>>
  /\ UNCHANGED <<subvars, auxvars>>

\* One call of fallback_router.
ApplyFallback ==
  /\ rfn = "none"
  /\ rj' = NoJudgment
  /\ routed' = fallback_router(ctx)
  /\ rfn' = "fallback_router"
  /\ UNCHANGED <<dpc, node, ctx, psteps, pexc, ret, aggRuns, abortSeen, aggJudge, lastBridge,
                 onlyFallback>>
  /\ UNCHANGED <<subvars, auxvars>>

RouterNext == ApplyRouter \/ ApplyFallback

RouterSpec == RouterInit /\ [][RouterNext]_vars

\* ======================================================================
\* Properties
\* ======================================================================
EvaluatorRuns == steps - workerRuns

Invalid(state) == Truthy(state.evaluation) /\ ~state.evaluation[1].is_valid

Valid(state) == Truthy(state.evaluation) /\ state.evaluation[1].is_valid

\* Every evaluator execution so far was a rejection by the judgment itself:
\* no worker fault, no judgment failure, and the human neither skipped nor
\* aborted.
AlwaysRejected ==
  /\ ~faulted
  /\ rejections = EvaluatorRuns
  /\ ~humanSkipped
  /\ hookAnswer # "a"

\* C1: a subgraph run whose judgment always returns is_valid=False ends
\* after exactly max_retries+1 rejections, not earlier and not later, with
\* retry_count = max_retries+1 and an invalid evaluation (3 for max_retries=2).
C1_Claim ==
  AlwaysRejected =>
    /\ rejections <= givenMaxRetries + 1
    /\ spc # "raised"
    /\ (spc = END /\ EvaluatorRuns > 0 =>
          /\ rejections = givenMaxRetries + 1
          /\ st.retry_count = givenMaxRetries + 1
          /\ Invalid(st))

\* C2: a run of the parent graph that reaches END without a user abort has
\* final_decision set.
C2_Claim ==
  (dpc = "invoking" /\ node = END /\ ~abortSeen) => Truthy(ctx.final_decision)

\* C3: whatever the graph run did (normal end, END without a decision, an
\* exception), decide returns a value with action in {buy, sell, hold} and
\* confidence in [0,1].
C3_Theorem ==
  dpc = "returned" =>
    /\ Truthy(ret)
    /\ ret[1].action \in Actions
    /\ ret[1].confidence \in 0..10

C3_Witness ==
  /\ dpc = "returned"
  /\ node = "raised"
  /\ Truthy(ret[1].error)
  /\ ret[1].action = "hold"

\* C4: once the human answered abort in the risk subgraph the whole parent
\* invocation is aborted: no parent node is scheduled any more, no final
\* decision is made, and decide returns with error set.
C4_Claim ==
  abortSeen =>
    /\ node = "raised"
    /\ ~Truthy(ctx.final_decision)
    /\ (dpc = "returned" => Truthy(ret[1].error))

\* C5: the worker is never invoked on a state that has completed=True.
C5_Claim == spc = "worker" => ~st.completed

\* C6: no node execution of a subgraph run lowers retry_count.
C6_Claim == [][st'.retry_count >= st.retry_count]_vars

\* C7: in every state of a subgraph run, 0 <= retry_count <= max_retries+1,
\* for the max_retries in the state and for the one passed to invoke.
C7_Theorem ==
  spc # "idle" =>
    /\ st.retry_count >= 0
    /\ st.retry_count <= st.max_retries + 1
    /\ st.retry_count <= givenMaxRetries + 1

C7_Witness ==
  /\ spc = "worker"
  /\ rejections >= 1
  /\ Invalid(st)
  /\ st.retry_count = 1

C9_Theorem ==
  (EvaluatorRuns = 1 /\ workerRuns = 1 /\ Valid(st)) =>
    /\ spc = END
    /\ st.retry_count = 0
    /\ st.completed
    /\ steps = 2

C9_Witness ==
  /\ EvaluatorRuns = 1
  /\ workerRuns = 1
  /\ Valid(st)
  /\ spc = END

\* C10: retry_count counts the evaluator executions that yielded
\* is_valid=False (failure path included) and nothing else.
C10_Claim == spc # "idle" => st.retry_count = rejections

\* C11: in every state of a subgraph run, an evaluation is present only if
\* a worker output is present.
C11_Claim == spc # "idle" => (Truthy(st.evaluation) => Truthy(st.worker_output))

\* C18: an evaluator execution in which every judgment attempt failed leaves
\* a well-formed evaluation: is_valid=False, confidence 0, quality_score 0
\* and at least one issue; no exception of the evaluator leaves the run.
C18_Theorem ==
  lastEval = "failed" =>
    /\ Truthy(st.evaluation)
    /\ ~st.evaluation[1].is_valid
    /\ st.evaluation[1].confidence = 0
    /\ st.evaluation[1].quality_score = 0
    /\ Len(st.evaluation[1].issues) >= 1
    /\ SchemaValid(st.evaluation[1])
    /\ (spc = "raised" => exc \in {UserAbort, Some("GraphRecursionError")})

C18_Witness ==
  /\ lastEval = "failed"
  /\ spc = "worker"
  /\ Truthy(st.worker_output)
  /\ st.evaluation[1].issues = <<"Evaluation failed: judgment failed">>

\* C20: after a worker fault the run ends, with error set to the worker's
\* failure and completed=True.
C20_Claim ==
  (lastWorkerFault /\ spc # "evaluator") =>
    /\ spc = END
    /\ st.completed
    /\ st.error = Some("worker failed")

\* The judgment behind a router call failed or answered outside the Literal.
BadJudgment(j) == j.kind = "error" \/ (j.kind = "raw" /\ j.next_action \notin RouterActions)

AllBranchesPresent(context) ==
  /\ Truthy(context.market_agent_output)
  /\ Truthy(context.sentiment_agent_output)
  /\ Truthy(context.risk_agent_output)

\* C12 (as stated): with final_decision non-empty, every call of
\* route_next_subgraph and of fallback_router returns END.
C12_Claim ==
  (Truthy(ctx.final_decision) /\ rfn # "none") => routed = "END"

\* C12 (amended): with final_decision non-empty, route_next_subgraph returns
\* END whatever its judgment answers; fallback_router called on its own
\* returns END exactly when the three branch outputs are present as well.
C12_Theorem ==
  Truthy(ctx.final_decision) =>
    /\ (rfn = "route_next_subgraph" => routed = "END")
    /\ (rfn = "fallback_router" => (routed = "END" <=> AllBranchesPresent(ctx)))

C12_Witness ==
  /\ Truthy(ctx.final_decision)
  /\ ~Truthy(ctx.market_agent_output)
  /\ rfn = "route_next_subgraph"
  /\ rj = [kind |-> "raw", next_action |-> "market_subgraph"]
  /\ routed = "END"

\* C13: route_next_subgraph always returns a key of the conditional-edge
\* table; when its judgment errors or answers outside the table, the
\* returned key is the fallback router's target.
C13_Theorem ==
  rfn = "route_next_subgraph" =>
    /\ routed \in EdgeKeys
    /\ EdgeTable(routed) \in ParentNodes \cup {END}
    /\ ((BadJudgment(rj) /\ ~Truthy(ctx.final_decision)) => routed = fallback_router(ctx))

C13_Witness ==
  /\ rfn = "route_next_subgraph"
  /\ rj = [kind |-> "raw", next_action |-> "ml_subgraph"]
  /\ Truthy(ctx.market_agent_output)
  /\ ~Truthy(ctx.sentiment_agent_output)
  /\ routed = "sentiment_subgraph"

\* C14: for every combination of present/absent branch outputs and
\* final_decision, fallback_router returns a key of the conditional-edge
\* table, and the Context is the same after the call.
C14_Theorem ==
  /\ [](rfn = "fallback_router" => (routed \in EdgeKeys /\ EdgeTable(routed) \in ParentNodes \cup {END}))
  /\ [][rfn' = "fallback_router" => ctx' = ctx]_vars

C14_Witness ==
  /\ rfn = "fallback_router"
  /\ AllBranchesPresent(ctx)
  /\ ~Truthy(ctx.ml_agent_output)
  /\ Truthy(ctx.final_decision)
  /\ routed = "END"

\* The first branch of `order` whose output is absent, 0 when none is.
FirstAbsent(context, order) ==
  IF \E i \in 1..Len(order) : ~Truthy(context[order[i] \o "_agent_output"])
    THEN CHOOSE i \in 1..Len(order) :
           /\ ~Truthy(context[order[i] \o "_agent_output"])
           /\ \A k \in 1..(i - 1) : Truthy(context[order[k] \o "_agent_output"])
    ELSE 0

\* The target the priority order `order` prescribes.
PriorityTarget(context, order) ==
  IF FirstAbsent(context, order) # 0 THEN order[FirstAbsent(context, order)] \o "_subgraph"
  ELSE IF ~Truthy(context.final_decision) THEN "final_decision"
  ELSE "END"

C17_Theorem ==
  aggJudge = "failed" =>
    /\ node = END
    /\ pexc = None
    /\ Truthy(ctx.final_decision)
    /\ ctx.final_decision[1].action = "hold"
    /\ ctx.final_decision[1].confidence = 0
    /\ ctx.final_decision[1].quantity = 0
    /\ ctx.final_decision[1].risk_approved = FALSE
    /\ ctx.final_decision[1].reasoning = "Error in decision synthesis"

C17_Witness ==
  /\ aggJudge = "failed"
  /\ dpc = "returned"
  /\ ret[1].action = "hold"
  /\ ret[1].error = None

\* The last bridge's subgraph run failed: invoke raised, or its final state
\* carries an error.
BranchFailed == lastBridge.node # "none" /\ (lastBridge.raised \/ Truthy(lastBridge.error))

\* C19: a failure inside a branch does not leave the bridge node: the
\* branch's output in the Context holds the error, the router is called
\* next, and the parent invoke raises nothing but its own step limit.
C19_Theorem ==
  BranchFailed =>
    /\ Truthy(ctx[OutputField(lastBridge.node)])
    /\ ctx[OutputField(lastBridge.node)][1].error =
         (IF lastBridge.raised THEN lastBridge.exc ELSE lastBridge.error)
    /\ rfn = "route_next_subgraph"
    /\ routed \in EdgeKeys
    /\ (node = "raised" => (pexc = Some("GraphRecursionError") /\ psteps = RecursionLimit))

C19_Witness ==
  /\ BranchFailed
  /\ lastBridge.node = "market_subgraph"
  /\ lastBridge.raised
  /\ ctx.market_agent_output[1].error = Some("GraphRecursionError")
  /\ node = "sentiment_subgraph"

\* C21: when a branch's worker-evaluator cycle stops on a rejected worker
\* output (its retries are used up), the branch's output in the Context
\* holds that worker output together with the evaluation and its issues.
C21_Claim ==
  (lastBridge.node # "none" /\ lastBridge.rejected) =>
    /\ Truthy(ctx[OutputField(lastBridge.node)])
    /\ Truthy(ctx[OutputField(lastBridge.node)][1].worker_output)
    /\ Truthy(ctx[OutputField(lastBridge.node)][1].evaluation)
    /\ ~ctx[OutputField(lastBridge.node)][1].evaluation[1].is_valid

\* C22: once a branch's output is present in the Context, no later step of
\* the run writes it again.
C22_Claim ==
  [][\A n \in BridgeNodes :
       Truthy(ctx[OutputField(n)]) => ctx'[OutputField(n)] = ctx[OutputField(n)]]_vars

\* C23: whatever the router answers, the parent invoke executes at most
\* RecursionLimit supersteps: every step inside invoke uses up one unit of
\* the budget or ends the run, a step is always possible until decide has
\* returned, and a run that needs more than the budget ends with the
\* step-limit error.
C23_Theorem ==
  /\ [](psteps <= RecursionLimit)
  /\ [](node = "raised" => (pexc = Some("GraphRecursionError") /\ psteps = RecursionLimit))
  /\ [](dpc = "invoking" => ENABLED Next)
  /\ [][(dpc = "invoking" /\ dpc' = "invoking") =>
         (psteps' = psteps + 1 \/ (node' = "raised" /\ psteps' = psteps))]_vars

C23_Witness ==
  /\ dpc = "returned"
  /\ psteps = RecursionLimit
  /\ node = "raised"
  /\ ret[1].error = Some("GraphRecursionError")

\* C24: every judgment call is bounded by a timeout, so decide is never
\* left waiting inside a judgment call that does not return.
C24_Claim == dpc # "blocked"

Local(i) == <<cctx[i], inv[i]>>

ConditionHolds(condition, context) ==
  /\ FieldValue(context, condition.field) # None
  /\ LET x == FieldValue(context, condition.field)[1]
         v == condition.value
     IN CASE condition.operator = "gt" -> x > v
          [] condition.operator = "lt" -> x < v
          [] condition.operator = "gte" -> x >= v
          [] condition.operator = "lte" -> x <= v
          [] condition.operator = "eq" -> x = v
          [] condition.operator = "neq" -> x # v
          [] OTHER -> FALSE

\* A rule's conditions hold under its AND/OR logic.
RuleHolds(rule, context) ==
  /\ Len(rule.conditions) > 0
  /\ \/ /\ rule.logic = "AND"
        /\ \A i \in 1..Len(rule.conditions) : ConditionHolds(rule.conditions[i], context)
     \/ /\ rule.logic = "OR"
        /\ \E i \in 1..Len(rule.conditions) : ConditionHolds(rule.conditions[i], context)

HoldingRules == {i \in 1..Len(rules) : RuleHolds(rules[i], rcontext)}

\* C27: evaluate_rules reports rules_evaluated = number of rules given,
\* rules_matched = number of rules whose conditions hold under their
\* AND/OR logic; recommended_action is the action of a holding rule of
\* highest confidence, and is None exactly when no rule holds.
C27_Claim ==
  rresult # None =>
    /\ rresult[1].rules_evaluated = Len(rules)
    /\ rresult[1].rules_matched = Cardinality(HoldingRules)
    /\ (rresult[1].recommended_action = None <=> HoldingRules = {})
    /\ (HoldingRules # {} =>
          \E i \in HoldingRules :
            /\ rresult[1].recommended_action = rules[i].action
            /\ \A k \in HoldingRules : rules[k].confidence <= rules[i].confidence)

\* The route the four cases give: END without an evaluation, END on a valid
\* evaluation, END when retry_count > max_retries, the worker otherwise.
FourCaseRoute(state) ==
  IF ~Truthy(state.evaluation) THEN END
  ELSE IF state.evaluation[1].is_valid THEN END
  ELSE IF state.retry_count > state.max_retries THEN END
  ELSE "worker"

\* C28: should_retry_worker of a branch subgraph returns, for every state,
\* END when the evaluation is absent, END when it is valid, END when
\* retry_count > max_retries, and the worker in every other case.
C28_Claim == [][spc = "decider" => spc' = FourCaseRoute(st)]_vars

\* C29: whenever the worker is entered again after an evaluation with
\* is_valid=False, the state carries a feedback for it, whichever path of
\* the evaluator produced that evaluation.
C29_Claim ==
  (spc = "worker" /\ steps > 0 /\ Invalid(st)) => Truthy(st.evaluator_feedback)

\* C30: one evaluator execution calls the judgment at most 3 times; a call
\* that succeeds is the last one; a failed call is followed by another one
\* exactly while fewer than 3 calls have been made.
C30_Theorem ==
  /\ Len(attemptLog) <= 3
  /\ \A i \in 1..Len(attemptLog) :
       /\ attemptLog[i] => i = Len(attemptLog)
       /\ (~attemptLog[i] /\ i < 3) => i < Len(attemptLog)

C30_Witness ==
  /\ spc = "worker"
  /\ steps > 0
  /\ attemptLog = <<FALSE, TRUE>>

\* C31: in every evaluator, when judgment attempt k fails and another attempt
\* follows, the prompt given to attempt k+1 contains the failure message of
\* attempt k.
C31_Claim ==
  \A k \in 1..Len(attemptLog) :
    (~attemptLog[k] /\ k < Len(attemptLog)) => k \in inputLog[k + 1]

\* C32: a worker execution changes only worker_output, completed and error:
\* the inputs, retry_count, max_retries, the feedback and the evaluation are
\* the same after the worker step as before it.
C32_Claim ==
  [][(spc = "worker" /\ spc' = "evaluator") =>
       /\ st'.symbol = st.symbol
       /\ st'.retry_count = st.retry_count
       /\ st'.max_retries = st.max_retries
       /\ st'.evaluator_feedback = st.evaluator_feedback
       /\ st'.evaluation = st.evaluation]_vars

\* C33: in every subgraph run the first node executed is the worker, and
\* every worker execution is followed directly by one evaluator execution
\* before any routing decision or termination.
C33_Claim ==
  /\ (spc # "idle" /\ steps = 0) => spc = "worker"
  /\ spc = "evaluator" => workerRuns = EvaluatorRuns + 1
  /\ spc \in {"worker", END, "raised"} => workerRuns = EvaluatorRuns

\* C34: in the risk subgraph the human is asked only when the automatic
\* retries are exhausted (retry_count > max_retries), never for a rejection
\* that still has retries left.
C34_Claim ==
  [][(hookAnswer = "" /\ hookAnswer' # "") => RetriesExhausted(st')]_vars

Comparisons == {"gt", "lt", "gte", "lte"}

\* C35: a single condition with operator gt, lt, gte or lte evaluates to
\* True exactly when the context value at its field path satisfies the
\* comparison against the condition's value (0 included), False otherwise.
\* A rule with logic AND and that one condition matches exactly when the
\* condition evaluates to True.
C35_Claim ==
  ( /\ rresult # None
    /\ Len(rules) = 1
    /\ Len(rules[1].conditions) = 1
    /\ rules[1].logic = "AND"
    /\ rules[1].conditions[1].operator \in Comparisons ) =>
    (rresult[1].rules_matched = 1 <=> ConditionHolds(rules[1].conditions[1], rcontext))

\* C36: a bridge node writes only its own branch's output: the other
\* branches' outputs, supervisor_plan, the inputs, decision_agent_output and
\* final_decision are the same after the node as before, whether the
\* subgraph succeeded, was rejected or raised.
C36_Theorem ==
  [][\A n \in BridgeNodes :
       (dpc = "invoking" /\ node = n /\ psteps' = psteps + 1) =>
         \A f \in (DOMAIN ctx) \ {OutputField(n)} : ctx'[f] = ctx[f]]_vars

C36_Witness ==
  /\ lastBridge.node = "risk_subgraph"
  /\ lastBridge.raised
  /\ Truthy(ctx.risk_agent_output)
  /\ Truthy(ctx.market_agent_output)
  /\ Truthy(ctx.supervisor_plan)
  /\ psteps = 3

\* The order fallback_router gives the parent graph's nodes.
FallbackOrder ==
  <<"supervisor", "market_subgraph", "sentiment_subgraph", "risk_subgraph",
    "final_decision", END>>

\* C37: while every judgment call of the router has failed, the parent graph
\* executes supervisor, market_subgraph, sentiment_subgraph, risk_subgraph,
\* final_decision in that order, each once (the node scheduled after k
\* supersteps is the k+1-th of the order), and then ends with final_decision
\* set, whatever the subgraphs returned or raised.
C37_Theorem ==
  (dpc = "invoking" /\ onlyFallback) =>
    /\ psteps <= 5
    /\ node = FallbackOrder[psteps + 1]
    /\ (node = END => Truthy(ctx.final_decision))

C37_Witness ==
  /\ dpc = "returned"
  /\ onlyFallback
  /\ psteps = 5
  /\ node = END
  /\ Truthy(ctx.final_decision)
  /\ Truthy(ctx.market_agent_output) /\ Truthy(ctx.market_agent_output[1].error)
  /\ Truthy(ctx.risk_agent_output) /\ ctx.risk_agent_output[1].error = UserAbort

\* C38: whenever risk_subgraph_node runs, decision_agent_output is unset, so
\* the risk branch is evaluated for the default proposal (buy, quantity 1);
\* decision_agent_output is written only by final_decision_node, and once it
\* is set the graph is at END: no branch runs after it.
C38_Theorem ==
  /\ []((dpc = "invoking" /\ node = "risk_subgraph") => ~Truthy(ctx.decision_agent_output))
  /\ [](lastBridge.node = "risk_subgraph" =>
          lastBridge.proposal = Some([action |-> "buy", quantity |-> 1]))
  /\ [](Truthy(ctx.decision_agent_output) => node = END)
  /\ [][ctx'.decision_agent_output # ctx.decision_agent_output =>
          (node = "final_decision" /\ aggRuns' = aggRuns + 1)]_vars

C38_Witness ==
  /\ lastBridge.node = "risk_subgraph"
  /\ lastBridge.proposal = Some([action |-> "buy", quantity |-> 1])
  /\ Truthy(ctx.decision_agent_output)
  /\ ctx.decision_agent_output[1].action = "hold"
  /\ dpc = "returned"

\* The validation of the build node: name, conditions, action and logic
\* present, action one of buy/sell/hold, conditions a non-empty list.
PassedValidation(rule) ==
  /\ \A f \in required_fields : rule[f] # None
  /\ rule.action[1] \in Actions
  /\ Len(rule.conditions[1]) > 0

\* C39: enrich_rule always returns; it returns a structured rule only if the
\* user confirmed it and it passed validation; on cancellation, edit,
\* validation failure or any error in the enrichment graph (an exception of
\* the run, or an error a node recorded in the state) it returns None.
C39_Claim ==
  epc = "returned" =>
    /\ (eret # None =>
          /\ echoice = "y"
          /\ est.is_valid
          /\ PassedValidation(eret[1]))
    /\ ((echoice \in {"n", "e"} \/ ~est.is_valid \/ eexc # None \/ est.error # None) =>
          eret = None)

\* C39, amended: enrich_rule always returns; it returns a structured rule
\* only if the user confirmed it and it passed validation; on cancellation,
\* edit, validation failure or an exception raised out of the graph run it
\* returns None.  An error that a node only records in the state (a model
\* answer that is not JSON in parse_intent, identify_missing or
\* generate_questions) does not end the run.
C39_Theorem ==
  epc = "returned" =>
    /\ (eret # None =>
          /\ echoice = "y"
          /\ est.is_valid
          /\ est.user_confirmed
          /\ eexc = None
          /\ PassedValidation(eret[1]))
    /\ ((echoice \in {"n", "e"} \/ ~est.is_valid \/ eexc # None) => eret = None)

C39_Witness ==
  /\ epc = "returned"
  /\ eret # None
  /\ echoice = "y"
  /\ est.error = Some("Failed to parse intent")
  /\ Len(est.user_answers) > 0

====
